---- MODULE Spec2Model ----
(***************************************************************************)
(* Recipe platform backend: the recipe controller (createRecipe,           *)
(* updateRecipe, deleteRecipe, rateRecipe, addToFavorites,                 *)
(* removeFromFavorites and the paginated listings) over the Recipe schema. *)
(*                                                                         *)
(* Every handler is an async function: it suspends at each store call      *)
(* (await) and other requests run in between.  A handler is therefore      *)
(* modelled as one action per store call; the synchronous code between two *)
(* awaits belongs to the action of the store call that precedes or follows *)
(* it.                                                                     *)
(*                                                                         *)
(* Store semantics (the Mongoose document API the controller calls):       *)
(*  - doc.save() of a loaded document sends only the paths the handler     *)
(*    modified.  array.push(x) is sent as $push and increments the         *)
(*    document version __v without testing it; array[i] = x is sent as a   *)
(*    $set of position i and is applied only if __v still has the value    *)
(*    that was read; array = newArray is sent as a $set of the whole array *)
(*    and is applied only if __v still has the value read, incrementing    *)
(*    it.  A failed version test or a vanished document makes save()       *)
(*    throw, which every handler turns into HTTP 500.                      *)
(*  - Model.findByIdAndUpdate(id, fields) applies $set of the given fields *)
(*    atomically, runs no save middleware and leaves __v alone.            *)
(*                                                                         *)
(* averageRating is a one-decimal number; the model keeps it in tenths     *)
(* (4.3 is 43).  Request texts that the code hands to parseInt are         *)
(* sequences of characters, a digit being its value 0..9 and any other     *)
(* character a number above 9.                                             *)
(***************************************************************************)
EXTENDS Integers, Sequences, FiniteSets, TLC

\* ------------------------------------------------------------------ bounds

\* Largest number of requests accepted in one behaviour.
MaxRequests == 4

\* Longest favorites sequence a behaviour of SpecFavorites starts from.
MaxFavorites == 3

\* Largest collection the listing specifications start from.
MaxDocs == 3

Users == {"u1", "u2"}

\* Request slots: requests that can be suspended at the same time.
Procs == {1, 2}

\* Recipe ids the store hands out, in this order (ids are never reused).
RecipeIds == {1, 2}

\* JavaScript's NaN, the result of parseInt on a text with no leading digit
\* (no text of the model parses to a negative number).
NaN == -1

\* ----------------------------------------------------------------- helpers

\* reduce((sum, rating) => sum + rating.rating, 0)
RECURSIVE SumRatings(_)
SumRatings(ratings) ==
  IF ratings = <<>> THEN 0
  ELSE Head(ratings).rating + SumRatings(Tail(ratings))

\* Math.round(x * 10) for x = total / n, as the nearest integer, halves up.
RoundTenths(total, n) == (20 * total + n) \div (2 * n)

\* calculateAverageRating: the two aggregates of a ratings array.
calculateAverageRating(ratings) ==
  IF Len(ratings) = 0
  THEN [averageRating |-> 0, totalRatings |-> 0]
  ELSE [averageRating |-> RoundTenths(SumRatings(ratings), Len(ratings)),
        totalRatings |-> Len(ratings)]

\* A null element of a stored array: what the store pads with when a position
\* beyond the end of the array is set.
Hole == [user |-> "null", rating |-> 0]

HasHole(ratings) == \E i \in 1..Len(ratings) : ratings[i] = Hole

\* findIndex threw: the callback read .user of a null element.
Threw == -1

\* recipe.ratings.findIndex(r => r.user.toString() === userId): the first
\* position (from 1) holding an entry of the user, 0 when there is none
\* (JavaScript's -1); the callback throws on a null element it visits.
RECURSIVE FindIndexFrom(_, _, _)
FindIndexFrom(ratings, user, i) ==
  IF i > Len(ratings) THEN 0
  ELSE IF ratings[i] = Hole THEN Threw
  ELSE IF ratings[i].user = user THEN i
  ELSE FindIndexFrom(ratings, user, i + 1)

existingRatingIndex(ratings, user) == FindIndexFrom(ratings, user, 1)

\* parseInt(text): the value of the leading digits, NaN when there are none.
RECURSIVE ParseDigits(_, _)
ParseDigits(text, acc) ==
  IF text = <<>> \/ Head(text) \notin 0..9 THEN acc
  ELSE ParseDigits(Tail(text), 10 * acc + Head(text))

parseInt(text) ==
  IF text = <<>> \/ Head(text) \notin 0..9 THEN NaN
  ELSE ParseDigits(text, 0)

\* The schema's validators of a ratings entry: rating is a number, min 1, max 5.
ValidRating(n) == n # NaN /\ n >= 1 /\ n <= 5

\* ------------------------------------------------------------------- state

VARIABLES
  recipes,  \* the Recipe collection: id -> stored document, or NoDoc
  users,    \* the User collection: user id -> [favoriteRecipes, v]
  nextId,   \* the id the next inserted recipe gets
  req,      \* request slot -> the handler suspended in it, or Idle
  resp,     \* the HTTP response sent by the latest step (with the body of
            \* the request it answers), or NoResp
  nreq      \* requests accepted so far

vars == <<recipes, users, nextId, req, resp, nreq>>

NoDoc == [missing |-> TRUE]

Idle == [op |-> "idle", user |-> "none", rid |-> 0, pc |-> "idle",
         body |-> <<>>, doc |-> NoDoc]

NoResp == [op |-> "none", user |-> "none", rid |-> 0, status |-> 0,
           body |-> <<>>]

Reply(op, user, rid, status, body) ==
  [op |-> op, user |-> user, rid |-> rid, status |-> status, body |-> body]

Suspended(op, user, rid, pc, body, doc) ==
  [op |-> op, user |-> user, rid |-> rid, pc |-> pc, body |-> body, doc |-> doc]

\* Recipe.findById(id)
findById(id) == recipes[id]

\* The document createRecipe builds: no ratings, isPublic by its default, __v 0.
NewRecipe(author) ==
  [author |-> author, isPublic |-> TRUE, ratings |-> <<>>,
   averageRating |-> 0, totalRatings |-> 0, v |-> 0]

\* pre('save'): the aggregates are recomputed on the document being saved.
PreSave(doc) ==
  [doc EXCEPT !.averageRating = calculateAverageRating(doc.ratings).averageRating,
              !.totalRatings = calculateAverageRating(doc.ratings).totalRatings]

Init ==
  /\ recipes = [r \in RecipeIds |-> NoDoc]
  /\ users = [u \in Users |-> [favoriteRecipes |-> <<>>, v |-> 0]]
  /\ nextId = 1
  /\ req = [p \in Procs |-> Idle]
  /\ resp = NoResp
  /\ nreq = 0

\* A request is accepted and its handler runs to its first store call; if it
\* suspends there, it takes the first free slot.
Accept(p) ==
  /\ nreq < MaxRequests
  /\ req[p] = Idle
  /\ \A q \in Procs : q < p => req[q] # Idle
  /\ nreq' = nreq + 1

\* ------------------------------------------------------------ createRecipe

\* image is '/uploads/<file>' with an upload and '' without; the schema
\* requires image, and '' fails a required string.
ValidNewRecipe(hasFile) == hasFile

\* createRecipe: one store call, the insert of recipe.save().
createRecipe(p, u, hasFile) ==
  /\ Accept(p)
  /\ IF ValidNewRecipe(hasFile)
     THEN /\ nextId \in RecipeIds
          /\ recipes' = [recipes EXCEPT ![nextId] = PreSave(NewRecipe(u))]
          /\ nextId' = nextId + 1
          /\ resp' = Reply("create", u, nextId, 201, <<>>)
     ELSE /\ resp' = Reply("create", u, 0, 500, <<>>)
          /\ UNCHANGED <<recipes, nextId>>
  /\ UNCHANGED <<users, req>>

\* -------------------------------------------------------------- rateRecipe

\* Request texts of the rating: "2", "5" and "10" (no valid rating).
RatingTexts == {<<2>>, <<5>>, <<1, 0>>}

\* The entry the handler builds (comment is kept out: no claim reads it).
RatingEntry(user, text) == [user |-> user, rating |-> parseInt(text)]

\* $set of position i of a stored array: positions past the end are padded
\* with null.
RECURSIVE SetAt(_, _, _)
SetAt(arr, i, x) ==
  IF i <= Len(arr) THEN [arr EXCEPT ![i] = x]
  ELSE IF i = Len(arr) + 1 THEN Append(arr, x)
  ELSE SetAt(Append(arr, Hole), i, x)

\* The handler's change of the array it loaded, lines 329-343.
Upsert(ratings, user, entry) ==
  IF existingRatingIndex(ratings, user) > 0
  THEN [ratings EXCEPT ![existingRatingIndex(ratings, user)] = entry]
  ELSE Append(ratings, entry)

\* A save that writes the handler's whole copy of the array over the stored one.
SaveRatingOverwrite(cur, loaded, user, entry) ==
  [cur EXCEPT !.ratings = IF existingRatingIndex(loaded.ratings, user) > 0
                          THEN [loaded.ratings EXCEPT
                                  ![existingRatingIndex(loaded.ratings, user)] = entry]
                          ELSE Append(loaded.ratings, entry)]

\* A save whose hook would see the stored array: the change is merged and the
\* aggregates are computed from the merged array.
SaveRatingRecount(cur, loaded, user, entry) ==
  PreSave([cur EXCEPT
             !.ratings = IF existingRatingIndex(loaded.ratings, user) > 0
                         THEN SetAt(@, existingRatingIndex(loaded.ratings, user), entry)
                         ELSE Append(@, entry),
             !.v = IF existingRatingIndex(loaded.ratings, user) > 0 THEN @ ELSE @ + 1])

\* recipe.save() of rateRecipe applied to the stored document cur: the ratings
\* change the handler made to its copy loaded, and the aggregates the
\* pre-save hook computed on that copy where they differ from the loaded ones.
SaveRating(cur, loaded, user, entry) ==
  [cur EXCEPT
     !.ratings = IF existingRatingIndex(loaded.ratings, user) > 0
                 THEN SetAt(@, existingRatingIndex(loaded.ratings, user), entry)
                 ELSE Append(@, entry),
     !.averageRating =
        IF PreSave([loaded EXCEPT !.ratings = Upsert(@, user, entry)]).averageRating
             # loaded.averageRating
        THEN PreSave([loaded EXCEPT !.ratings = Upsert(@, user, entry)]).averageRating
        ELSE @,
     !.totalRatings =
        IF PreSave([loaded EXCEPT !.ratings = Upsert(@, user, entry)]).totalRatings
             # loaded.totalRatings
        THEN PreSave([loaded EXCEPT !.ratings = Upsert(@, user, entry)]).totalRatings
        ELSE @,
     !.v = IF existingRatingIndex(loaded.ratings, user) > 0 THEN @ ELSE @ + 1]

\* save() throws: the entry fails validation, the hook meets a null element,
\* the document is gone, or a positional $set finds another __v.
SaveRatingFails(cur, loaded, user, entry) ==
  \/ ~ValidRating(entry.rating)
  \/ HasHole(loaded.ratings)
  \/ cur = NoDoc
  \/ /\ existingRatingIndex(loaded.ratings, user) > 0
     /\ cur.v # loaded.v

\* rateRecipe up to recipe.save(): findById, then findIndex on the copy.
rateRecipeRead(p, u, r, text) ==
  /\ Accept(p)
  /\ IF findById(r) = NoDoc
     THEN /\ resp' = Reply("rate", u, r, 404, <<>>)
          /\ UNCHANGED req
     ELSE IF existingRatingIndex(findById(r).ratings, u) = Threw
     THEN /\ resp' = Reply("rate", u, r, 500, <<>>)
          /\ UNCHANGED req
     ELSE /\ req' = [req EXCEPT ![p] =
                      Suspended("rate", u, r, "save", text, findById(r))]
          /\ resp' = NoResp
  /\ UNCHANGED <<recipes, users, nextId>>

\* rateRecipe from recipe.save() on.
rateRecipeSave(p) ==
  /\ req[p].op = "rate" /\ req[p].pc = "save"
  /\ LET u == req[p].user
         r == req[p].rid
         entry == RatingEntry(u, req[p].body)
     IN IF SaveRatingFails(recipes[r], req[p].doc, u, entry)
        THEN /\ resp' = Reply("rate", u, r, 500, req[p].body)
             /\ UNCHANGED recipes
        ELSE /\ recipes' = [recipes EXCEPT ![r] =
                              SaveRating(@, req[p].doc, u, entry)]
             /\ resp' = Reply("rate", u, r, 200, req[p].body)
  /\ req' = [req EXCEPT ![p] = Idle]
  /\ UNCHANGED <<users, nextId, nreq>>

\* ------------------------------------------- updateRecipe and deleteRecipe

\* JSON texts JSON.parse rejects.
MalformedJson == {"{"}

\* Request bodies of updateRecipe: records holding the fields present.
UpdateBodies ==
  { [isPublic |-> FALSE],
    [author |-> "u2"],
    [averageRating |-> 50],
    [averageRating |-> 60],
    [ratings |-> <<>>],
    [ratings |-> <<[user |-> "u2", rating |-> 5]>>],
    [tags |-> "{"] }

Has(body, field) == field \in DOMAIN body

\* Lines 233-247: a structured field that arrives as text is parsed.
ParseThrows(body) == Has(body, "tags") /\ body.tags \in MalformedJson

\* runValidators: the schema's validators of the fields being set.
ValidUpdate(body) ==
  /\ Has(body, "averageRating") =>
       body.averageRating >= 0 /\ body.averageRating <= 50
  /\ Has(body, "ratings") =>
       \A i \in 1..Len(body.ratings) : ValidRating(body.ratings[i].rating)

\* $set of the body's fields on the stored document (tags is not modelled
\* as a stored field).
ApplyUpdate(cur, body) ==
  [f \in DOMAIN cur |-> IF Has(body, f) THEN body[f] ELSE cur[f]]

\* An ownership test that lets everyone through.
IsAuthorAnyone(doc, u) == TRUE

\* The ownership test of updateRecipe and deleteRecipe.
IsAuthor(doc, u) == doc.author = u

\* updateRecipe up to findByIdAndUpdate.
updateRecipeRead(p, u, r, body) ==
  /\ Accept(p)
  /\ IF findById(r) = NoDoc
     THEN /\ resp' = Reply("update", u, r, 404, body)
          /\ UNCHANGED req
     ELSE IF ~IsAuthor(findById(r), u)
     THEN /\ resp' = Reply("update", u, r, 403, body)
          /\ UNCHANGED req
     ELSE IF ParseThrows(body)
     THEN /\ resp' = Reply("update", u, r, 500, body)
          /\ UNCHANGED req
     ELSE /\ req' = [req EXCEPT ![p] =
                      Suspended("update", u, r, "write", body, NoDoc)]
          /\ resp' = NoResp
  /\ UNCHANGED <<recipes, users, nextId>>

\* findByIdAndUpdate(id, updates, {new: true, runValidators: true}): a
\* vanished document gives null, which the handler answers with 200.
updateRecipeWrite(p) ==
  /\ req[p].op = "update" /\ req[p].pc = "write"
  /\ LET u == req[p].user
         r == req[p].rid
     IN IF ~ValidUpdate(req[p].body)
        THEN /\ resp' = Reply("update", u, r, 500, req[p].body)
             /\ UNCHANGED recipes
        ELSE /\ recipes' = [recipes EXCEPT ![r] =
                              IF @ = NoDoc THEN @
                              ELSE ApplyUpdate(@, req[p].body)]
             /\ resp' = Reply("update", u, r, 200, req[p].body)
  /\ req' = [req EXCEPT ![p] = Idle]
  /\ UNCHANGED <<users, nextId, nreq>>

\* deleteRecipe up to findByIdAndDelete.
deleteRecipeRead(p, u, r) ==
  /\ Accept(p)
  /\ IF findById(r) = NoDoc
     THEN /\ resp' = Reply("delete", u, r, 404, <<>>)
          /\ UNCHANGED req
     ELSE IF ~IsAuthor(findById(r), u)
     THEN /\ resp' = Reply("delete", u, r, 403, <<>>)
          /\ UNCHANGED req
     ELSE /\ req' = [req EXCEPT ![p] =
                      Suspended("delete", u, r, "write", <<>>, NoDoc)]
          /\ resp' = NoResp
  /\ UNCHANGED <<recipes, users, nextId>>

\* findByIdAndDelete(id)
deleteRecipeWrite(p) ==
  /\ req[p].op = "delete" /\ req[p].pc = "write"
  /\ recipes' = [recipes EXCEPT ![req[p].rid] = NoDoc]
  /\ resp' = Reply("delete", req[p].user, req[p].rid, 200, <<>>)
  /\ req' = [req EXCEPT ![p] = Idle]
  /\ UNCHANGED <<users, nextId, nreq>>

\* --------------------------------------------------------------- favorites

\* An includes that never finds the id (a text compared with object ids).
IncludesNever(favs, id) == FALSE

\* user.favoriteRecipes.includes(id)
Includes(favs, id) == \E i \in 1..Len(favs) : favs[i] = id

\* A removal of the first occurrence only (splice at indexOf).
RECURSIVE FilterOutFirst(_, _)
FilterOutFirst(favs, id) ==
  IF favs = <<>> THEN <<>>
  ELSE IF Head(favs) = id THEN Tail(favs)
  ELSE <<Head(favs)>> \o FilterOutFirst(Tail(favs), id)

\* user.favoriteRecipes.filter(id => id.toString() !== recipeId)
RECURSIVE FilterOut(_, _)
FilterOut(favs, id) ==
  IF favs = <<>> THEN <<>>
  ELSE IF Head(favs) = id THEN FilterOut(Tail(favs), id)
  ELSE <<Head(favs)>> \o FilterOut(Tail(favs), id)

\* user.save() after favoriteRecipes.push(id): $push, __v incremented.
SavePush(cur, id) ==
  [cur EXCEPT !.favoriteRecipes = Append(@, id), !.v = @ + 1]

\* user.save() after favoriteRecipes = filtered: nothing is sent when the
\* array did not change, else the whole array is set and __v incremented.
SaveFiltered(cur, loaded, id) ==
  IF FilterOut(loaded.favoriteRecipes, id) = loaded.favoriteRecipes
  THEN cur
  ELSE [cur EXCEPT !.favoriteRecipes = FilterOut(loaded.favoriteRecipes, id),
                   !.v = @ + 1]

\* The whole-array $set is applied only to the version that was loaded.
SaveFilteredFails(cur, loaded, id) ==
  /\ FilterOut(loaded.favoriteRecipes, id) # loaded.favoriteRecipes
  /\ cur.v # loaded.v

\* addToFavorites: Recipe.findById.
addToFavoritesReadRecipe(p, u, r) ==
  /\ Accept(p)
  /\ IF findById(r) = NoDoc
     THEN /\ resp' = Reply("add", u, r, 404, <<>>)
          /\ UNCHANGED req
     ELSE /\ req' = [req EXCEPT ![p] =
                      Suspended("add", u, r, "readUser", <<>>, NoDoc)]
          /\ resp' = NoResp
  /\ UNCHANGED <<recipes, users, nextId>>

\* addToFavorites: User.findById, the includes test and the push.
addToFavoritesReadUser(p) ==
  /\ req[p].op = "add" /\ req[p].pc = "readUser"
  /\ IF Includes(users[req[p].user].favoriteRecipes, req[p].rid)
     THEN /\ resp' = Reply("add", req[p].user, req[p].rid, 400, <<>>)
          /\ req' = [req EXCEPT ![p] = Idle]
     ELSE /\ req' = [req EXCEPT ![p].pc = "save"]
          /\ resp' = NoResp
  /\ UNCHANGED <<recipes, users, nextId, nreq>>

\* addToFavorites: user.save().
addToFavoritesSave(p) ==
  /\ req[p].op = "add" /\ req[p].pc = "save"
  /\ users' = [users EXCEPT ![req[p].user] = SavePush(@, req[p].rid)]
  /\ resp' = Reply("add", req[p].user, req[p].rid, 200, <<>>)
  /\ req' = [req EXCEPT ![p] = Idle]
  /\ UNCHANGED <<recipes, nextId, nreq>>

\* removeFromFavorites: User.findById and the filter.
removeFromFavoritesRead(p, u, r) ==
  /\ Accept(p)
  /\ req' = [req EXCEPT ![p] =
               Suspended("remove", u, r, "save", <<>>, users[u])]
  /\ resp' = NoResp
  /\ UNCHANGED <<recipes, users, nextId>>

\* removeFromFavorites: user.save().
removeFromFavoritesSave(p) ==
  /\ req[p].op = "remove" /\ req[p].pc = "save"
  /\ LET u == req[p].user
         r == req[p].rid
     IN IF SaveFilteredFails(users[u], req[p].doc, r)
        THEN /\ resp' = Reply("remove", u, r, 500, <<>>)
             /\ UNCHANGED users
        ELSE /\ users' = [users EXCEPT ![u] = SaveFiltered(@, req[p].doc, r)]
             /\ resp' = Reply("remove", u, r, 200, <<>>)
  /\ req' = [req EXCEPT ![p] = Idle]
  /\ UNCHANGED <<recipes, nextId, nreq>>

\* ------------------------------------------------------------ specification

Next ==
  \/ \E p \in Procs, u \in Users, hasFile \in BOOLEAN : createRecipe(p, u, hasFile)
  \/ \E p \in Procs, u \in Users, r \in RecipeIds, text \in RatingTexts :
       rateRecipeRead(p, u, r, text)
  \/ \E p \in Procs : rateRecipeSave(p)
  \/ \E p \in Procs, u \in Users, r \in RecipeIds, body \in UpdateBodies :
       updateRecipeRead(p, u, r, body)
  \/ \E p \in Procs : updateRecipeWrite(p)
  \/ \E p \in Procs, u \in Users, r \in RecipeIds : deleteRecipeRead(p, u, r)
  \/ \E p \in Procs : deleteRecipeWrite(p)
  \/ \E p \in Procs, u \in Users, r \in RecipeIds : addToFavoritesReadRecipe(p, u, r)
  \/ \E p \in Procs : addToFavoritesReadUser(p)
  \/ \E p \in Procs : addToFavoritesSave(p)
  \/ \E p \in Procs, u \in Users, r \in RecipeIds : removeFromFavoritesRead(p, u, r)
  \/ \E p \in Procs : removeFromFavoritesSave(p)

Spec == Init /\ [][Next]_vars

\* The favorites handlers from any favorites sequence: the recipes exist, one
\* user holds any sequence of at most MaxFavorites references, to existing
\* recipes or to a recipe deleted since (StaleId), possibly repeated, and
\* sends the requests (user documents are independent of each other).
StaleId == 0

FavoritesUser == "u1"

FavoriteIds == RecipeIds \cup {StaleId}

FavoriteLists == UNION {[1..n -> FavoriteIds] : n \in 0..MaxFavorites}

InitFavorites ==
  /\ recipes = [r \in RecipeIds |-> PreSave(NewRecipe("u1"))]
  /\ \E favs \in FavoriteLists :
       users = [u \in Users |->
                 IF u = FavoritesUser
                 THEN [favoriteRecipes |-> favs, v |-> Len(favs)]
                 ELSE [favoriteRecipes |-> <<>>, v |-> 0]]
  /\ nextId = Cardinality(RecipeIds) + 1
  /\ req = [p \in Procs |-> Idle]
  /\ resp = NoResp
  /\ nreq = 0

NextFavorites ==
  \/ \E p \in Procs, u \in {FavoritesUser}, r \in RecipeIds : addToFavoritesReadRecipe(p, u, r)
  \/ \E p \in Procs : addToFavoritesReadUser(p)
  \/ \E p \in Procs : addToFavoritesSave(p)
  \/ \E p \in Procs, u \in {FavoritesUser}, r \in FavoriteIds : removeFromFavoritesRead(p, u, r)
  \/ \E p \in Procs : removeFromFavoritesSave(p)

SpecFavorites == InitFavorites /\ [][NextFavorites]_vars

\* ---------------------------------------------------------------- listings

\* Number(text), the coercion of (page - 1) * limit, total / limit and the
\* comparisons of page: '' is 0, a text of digits its value, any other NaN.
RECURSIVE AllDigits(_)
AllDigits(text) ==
  text = <<>> \/ (Head(text) \in 0..9 /\ AllDigits(Tail(text)))

ToNumber(text) == IF AllDigits(text) THEN ParseDigits(text, 0) ELSE NaN

\* Destructuring defaults: page = 1, limit = 12 (numbers, when the query
\* holds no such parameter).
DefaultPage == 1
DefaultLimit == 12

PageNumber(q) == IF Has(q, "page") THEN ToNumber(q.page) ELSE DefaultPage
PageInt(q) == IF Has(q, "page") THEN parseInt(q.page) ELSE DefaultPage
LimitNumber(q) == IF Has(q, "limit") THEN ToNumber(q.limit) ELSE DefaultLimit
LimitInt(q) == IF Has(q, "limit") THEN parseInt(q.limit) ELSE DefaultLimit

\* const skip = (page - 1) * limit
Skip(q) == (PageNumber(q) - 1) * LimitNumber(q)

\* Math.floor(a / b), a mutant of the ceiling.
FloorDiv(a, b) == a \div b

\* Math.ceil(a / b) for b > 0.
CeilDiv(a, b) == (a + b - 1) \div b

\* A strict comparison in place of $lte.
TimeWithinStrict(doc, text) ==
  doc.cookingTime.prep + doc.cookingTime.cook < parseInt(text)

\* $expr: {$lte: [{$add: ['$cookingTime.prep', '$cookingTime.cook']}, parseInt(maxTime)]}
TimeWithin(doc, text) ==
  doc.cookingTime.prep + doc.cookingTime.cook <= parseInt(text)

\* if (x): a parameter that is present and no empty text (numeric parameters
\* are kept as sequences of characters, the others as strings).
Truthy(q, field) ==
  Has(q, field) /\ q[field] # (IF field = "maxTime" THEN <<>> ELSE "")

\* The filter object of getRecipes, lines 83-94, as a test of a document
\* (cuisine and dietType are built like difficulty; minRating, maxCalories
\* and search are not drawn by the model's queries).
MatchesFilter(doc, q) ==
  /\ doc.isPublic = TRUE
  /\ (Truthy(q, "difficulty") /\ q.difficulty # "All")
       => doc.difficulty = q.difficulty
  /\ Truthy(q, "maxTime") => TimeWithin(doc, q.maxTime)

\* The ids of the stored documents that pass a test.
Exists(id) == id \in DOMAIN recipes /\ recipes[id] # NoDoc

\* sort({createdAt: dir}): dir -1 puts the latest first.
RECURSIVE SortByCreatedAt(_, _)
SortByCreatedAt(ids, dir) ==
  IF ids = {} THEN <<>>
  ELSE LET first == CHOOSE i \in ids :
                      \A j \in ids :
                        IF dir = -1
                        THEN recipes[i].createdAt >= recipes[j].createdAt
                        ELSE recipes[i].createdAt <= recipes[j].createdAt
       IN <<first>> \o SortByCreatedAt(ids \ {first}, dir)

\* .skip(n).limit(m) of a cursor.
SkipLimit(seq, n, m) ==
  IF n >= Len(seq) THEN <<>>
  ELSE SubSeq(seq, n + 1, IF n + m < Len(seq) THEN n + m ELSE Len(seq))

\* sort[sortBy] = sortOrder === 'desc' ? -1 : 1, sortOrder defaulting to 'desc'
\* (sortBy is createdAt, its default).
SortDir(q) ==
  IF Has(q, "sortOrder") THEN (IF q.sortOrder = "desc" THEN -1 ELSE 1) ELSE -1

\* The pagination object of the three listings.
Pagination(q, total) ==
  [currentPage |-> PageInt(q),
   totalPages |-> CeilDiv(total, LimitNumber(q)),
   totalRecipes |-> total,
   hasNextPage |-> PageNumber(q) < CeilDiv(total, LimitNumber(q)),
   hasPrevPage |-> PageNumber(q) > 1]

Listing(op, user, q, found, total) ==
  [op |-> op, user |-> user, query |-> q, status |-> 200,
   recipes |-> found, pagination |-> Pagination(q, total)]

\* The listings read the store and leave it as it is; a behaviour of the
\* listing specifications answers one (resp = NoResp), later ones would read
\* the same store.

\* getRecipes: find with sort, skip and limit, and countDocuments, of one
\* filter (the documents are answered by their ids).
getRecipes(q) ==
  /\ resp = NoResp
  /\ resp' = Listing("list", "none", q,
               SkipLimit(SortByCreatedAt({i \in DOMAIN recipes :
                                            Exists(i) /\ MatchesFilter(recipes[i], q)},
                                         SortDir(q)),
                         Skip(q), LimitInt(q)),
               Cardinality({i \in DOMAIN recipes :
                              Exists(i) /\ MatchesFilter(recipes[i], q)}))
  /\ UNCHANGED <<recipes, users, nextId, req, nreq>>

\* getUserRecipes: the caller's recipes, latest first.
getUserRecipes(u, q) ==
  /\ resp = NoResp
  /\ resp' = Listing("mine", u, q,
               SkipLimit(SortByCreatedAt({i \in DOMAIN recipes :
                                            Exists(i) /\ recipes[i].author = u}, -1),
                         Skip(q), LimitInt(q)),
               Cardinality({i \in DOMAIN recipes :
                              Exists(i) /\ recipes[i].author = u}))
  /\ UNCHANGED <<recipes, users, nextId, req, nreq>>

\* populate('favoriteRecipes', {skip, limit, sort: {createdAt: -1}}): the
\* path is replaced by the documents the populate query finds, that is the
\* existing recipes among the references, sorted, skipped and limited.
Populate(favs, q) ==
  SkipLimit(SortByCreatedAt({i \in {favs[k] : k \in 1..Len(favs)} : Exists(i)}, -1),
            Skip(q), LimitInt(q))

\* getFavoriteRecipes: total is the length of the populated path.
getFavoriteRecipes(u, q) ==
  /\ resp = NoResp
  /\ resp' = Listing("favorites", u, q,
               Populate(users[u].favoriteRecipes, q),
               Len(Populate(users[u].favoriteRecipes, q)))
  /\ UNCHANGED <<recipes, users, nextId, req, nreq>>

\* Query parameters arrive as texts: "1", "2", "3" and "10".
PageTexts == {<<1>>, <<2>>, <<3>>, <<1, 0>>}
LimitTexts == {<<1>>, <<2>>, <<3>>}

PageQueries ==
  {<<>>} \cup {[page |-> pg] : pg \in PageTexts}
         \cup {[limit |-> lm] : lm \in LimitTexts}
         \cup {[page |-> pg, limit |-> lm] : pg \in PageTexts, lm \in LimitTexts}

\* Merge of two parameter records.
Merge(a, b) == [f \in DOMAIN a \cup DOMAIN b |-> IF f \in DOMAIN a THEN a[f] ELSE b[f]]

\* maxTime "25" and "30", difficulty 'All' and 'Easy', both sort orders.
FilterQueries ==
  {Merge(Merge(t, d), o) :
     t \in {<<>>, [maxTime |-> <<2, 5>>], [maxTime |-> <<3, 0>>]},
     d \in {<<>>, [difficulty |-> "All"], [difficulty |-> "Easy"]},
     o \in {<<>>, [sortOrder |-> "asc"], [sortOrder |-> "desc"]}}

ListQueries == {Merge(a, b) : a \in PageQueries, b \in FilterQueries}

\* The documents a collection of the listing specifications is drawn from.
RecipeKinds ==
  { [author |-> "u1", isPublic |-> TRUE, difficulty |-> "Easy",
     cookingTime |-> [prep |-> 10, cook |-> 20]],
    [author |-> "u1", isPublic |-> FALSE, difficulty |-> "Easy",
     cookingTime |-> [prep |-> 10, cook |-> 15]],
    [author |-> "u2", isPublic |-> TRUE, difficulty |-> "Hard",
     cookingTime |-> [prep |-> 10, cook |-> 15]],
    [author |-> "u2", isPublic |-> TRUE, difficulty |-> "Hard",
     cookingTime |-> [prep |-> 15, cook |-> 20]] }

\* A stored recipe of a kind, created as the i-th.
Stored(kind, i) ==
  [author |-> kind.author, isPublic |-> kind.isPublic,
   difficulty |-> kind.difficulty, cookingTime |-> kind.cookingTime,
   createdAt |-> i, ratings |-> <<>>, averageRating |-> 0,
   totalRatings |-> 0, v |-> 0]

\* The listings over any collection of at most MaxDocs recipes.
InitList ==
  /\ \E n \in 0..MaxDocs : \E kinds \in [1..n -> RecipeKinds] :
       /\ recipes = [i \in 1..n |-> Stored(kinds[i], i)]
       /\ nextId = n + 1
  /\ users = [u \in Users |-> [favoriteRecipes |-> <<>>, v |-> 0]]
  /\ req = [p \in Procs |-> Idle]
  /\ resp = NoResp
  /\ nreq = 0

NextList ==
  \/ \E q \in ListQueries : getRecipes(q)
  \/ \E u \in Users, q \in PageQueries : getUserRecipes(u, q)

SpecList == InitList /\ [][NextList]_vars

\* The favorites listing over MaxDocs recipes, of which some are deleted, and
\* any favorites sequence without repetition over them.
InitFavoriteList ==
  /\ \E gone \in SUBSET (1..MaxDocs) :
       recipes = [i \in 1..MaxDocs |->
                   IF i \in gone /\ i > 1 THEN NoDoc
                   ELSE Stored(CHOOSE k \in RecipeKinds : k.author = "u2" /\ k.cookingTime.cook = 15, i)]
  /\ nextId = MaxDocs + 1
  /\ \E n \in 0..MaxDocs : \E favs \in [1..n -> 1..MaxDocs] :
       /\ \A i, j \in 1..n : favs[i] = favs[j] => i = j
       /\ users = [u \in Users |->
                    IF u = FavoritesUser
                    THEN [favoriteRecipes |-> favs, v |-> n]
                    ELSE [favoriteRecipes |-> <<>>, v |-> 0]]
  /\ req = [p \in Procs |-> Idle]
  /\ resp = NoResp
  /\ nreq = 0

NextFavoriteList ==
  \E u \in Users, q \in PageQueries : getFavoriteRecipes(u, q)

SpecFavoriteList == InitFavoriteList /\ [][NextFavoriteList]_vars

\* ------------------------------------------------------------------ claims

\* Steps of the handlers, told from the slot they leave or take.
RateSaveStep(p) ==
  req[p].op = "rate" /\ req[p].pc = "save" /\ req'[p] = Idle

AcceptStep == nreq' = nreq + 1

\* The fields of a stored recipe that are no rating data.
NonRating(doc) == [author |-> doc.author, isPublic |-> doc.isPublic]

EntriesOf(ratings, u) == {i \in 1..Len(ratings) : ratings[i].user = u}

\* C1: every stored recipe has totalRatings = number of entries of ratings and
\* averageRating = round(mean of the rating values * 10) / 10 (kept in
\* tenths), 0 when ratings is empty.
C1_AggregatesConsistent ==
  \A r \in RecipeIds :
    recipes[r] # NoDoc =>
      /\ recipes[r].totalRatings = Len(recipes[r].ratings)
      /\ recipes[r].averageRating =
           IF Len(recipes[r].ratings) = 0 THEN 0
           ELSE RoundTenths(SumRatings(recipes[r].ratings), Len(recipes[r].ratings))

\* C2: the ratings of a stored recipe hold at most one entry per user, and
\* right after a user's rateRecipe succeeded that user has exactly one entry,
\* carrying the rating just sent.
C2_OneEntryPerUser ==
  /\ \A r \in RecipeIds : \A u \in Users :
       recipes[r] # NoDoc => Cardinality(EntriesOf(recipes[r].ratings, u)) <= 1
  /\ (resp.op = "rate" /\ resp.status = 200) =>
       /\ Cardinality(EntriesOf(recipes[resp.rid].ratings, resp.user)) = 1
       /\ \A i \in EntriesOf(recipes[resp.rid].ratings, resp.user) :
            recipes[resp.rid].ratings[i].rating = parseInt(resp.body)

\* C3: no user's favoriteRecipes holds a recipe id twice.
C3_NoDuplicateFavorites ==
  \A u \in Users :
    \A i, j \in 1..Len(users[u].favoriteRecipes) :
      users[u].favoriteRecipes[i] = users[u].favoriteRecipes[j] => i = j

\* C4: updateRecipe and deleteRecipe on an existing recipe by a user who is
\* not its author answer 403 whatever the body and change nothing: such a
\* request never gets to its write, and every step that changes the
\* non-rating fields of a recipe or deletes it is the write of an update or
\* delete request (which passed the ownership test).
C4_NonAuthorForbidden ==
  [][ /\ (AcceptStep /\ resp'.op \in {"update", "delete"}
            /\ recipes[resp'.rid] # NoDoc
            /\ recipes[resp'.rid].author # resp'.user)
          => (resp'.status = 403 /\ recipes' = recipes /\ req' = req)
      /\ \A p \in Procs :
           (req[p] = Idle /\ req'[p].op \in {"update", "delete"})
             => /\ recipes[req'[p].rid] # NoDoc
                /\ recipes[req'[p].rid].author = req'[p].user
                /\ recipes' = recipes
      /\ \A r \in RecipeIds :
           (recipes[r] # NoDoc
              /\ (recipes'[r] = NoDoc \/ NonRating(recipes'[r]) # NonRating(recipes[r])))
             => \E p \in Procs :
                  /\ req[p].op \in {"update", "delete"}
                  /\ req[p].pc = "write"
                  /\ req[p].rid = r
                  /\ req'[p] = Idle
    ]_vars

\* C4's case: a non-author's update with a body that fails validation was
\* answered 403 and the recipe is still there.
C4_Witness ==
  /\ resp.op = "update" /\ resp.status = 403
  /\ resp.body = [averageRating |-> 60]
  /\ recipes[resp.rid] # NoDoc
  /\ recipes[resp.rid].author # resp.user

\* C5: addToFavorites answers 404 and changes nothing when the recipe does
\* not exist; when the id is in the favorites it loaded, it answers with the
\* already-in-favorites error (HTTP 400) and changes nothing; otherwise it
\* appends the id at the end of the stored favorites and answers 200.
C5_AddToFavorites ==
  [][ /\ (AcceptStep /\ resp'.op = "add")
          => (recipes[resp'.rid] = NoDoc /\ resp'.status = 404 /\ users' = users)
      /\ \A p \in Procs :
           /\ (req[p] = Idle /\ req'[p].op = "add")
                => (recipes[req'[p].rid] # NoDoc /\ users' = users)
           /\ (req[p].op = "add" /\ req[p].pc = "readUser" /\ req'[p] # req[p])
                => /\ users' = users
                   /\ IF \E i \in 1..Len(users[req[p].user].favoriteRecipes) :
                            users[req[p].user].favoriteRecipes[i] = req[p].rid
                      THEN /\ req'[p] = Idle
                           /\ resp' = Reply("add", req[p].user, req[p].rid, 400, <<>>)
                      ELSE /\ req'[p] = [req[p] EXCEPT !.pc = "save"]
                           /\ resp' = NoResp
           /\ (req[p].op = "add" /\ req[p].pc = "save" /\ req'[p] # req[p])
                => /\ req'[p] = Idle
                   /\ resp' = Reply("add", req[p].user, req[p].rid, 200, <<>>)
                   /\ users'[req[p].user].favoriteRecipes =
                        Append(users[req[p].user].favoriteRecipes, req[p].rid)
                   /\ \A u \in Users \ {req[p].user} : users'[u] = users[u]
    ]_vars

\* C5's case: an add of an id that is already a favorite was answered 400.
C5_Witness ==
  /\ resp.op = "add" /\ resp.status = 400
  /\ \E i \in 1..Len(users[resp.user].favoriteRecipes) :
       users[resp.user].favoriteRecipes[i] = resp.rid

\* C10: a rateRecipe save changes the stored ratings in one place.  With i the
\* position of the caller's entry in the document the handler loaded: every
\* stored entry at another position keeps its value and position and the
\* array never shrinks; for i = 0 the new entry is appended at the end; for
\* i > 0 position i gets the new entry, and when the stored array is still
\* the one loaded, its length is unchanged and position i held the caller's
\* first entry.  A save that fails changes nothing.
C10_RatingFrame ==
  [][ \A p \in Procs :
        RateSaveStep(p) =>
          LET u == req[p].user
              r == req[p].rid
              loaded == req[p].doc.ratings
              i == existingRatingIndex(loaded, u)
              entry == [user |-> u, rating |-> parseInt(req[p].body)]
          IN IF resp'.status = 200
             THEN LET old == recipes[r].ratings
                      new == recipes'[r].ratings
                  IN /\ Len(new) >= Len(old)
                     /\ \A j \in 1..Len(old) : j # i => new[j] = old[j]
                     /\ i = 0 => new = Append(old, entry)
                     /\ i > 0 => new[i] = entry
                     /\ (i > 0 /\ old = loaded)
                          => (Len(new) = Len(old) /\ old[i].user = u)
                     /\ (i = 0 /\ old = loaded)
                          => \A j \in 1..Len(old) : old[j].user # u
                     /\ \A q \in RecipeIds \ {r} : recipes'[q] = recipes[q]
             ELSE recipes' = recipes
    ]_vars

\* C10's case: the latest step was a successful rating that replaced the
\* caller's entry at position 1 of two.
C10_Witness ==
  /\ resp.op = "rate" /\ resp.status = 200
  /\ Len(recipes[resp.rid].ratings) = 2
  /\ recipes[resp.rid].ratings[1] = [user |-> resp.user, rating |-> parseInt(resp.body)]
  /\ recipes[resp.rid].ratings[2].user # resp.user

RemoveSaveStep(p) ==
  req[p].op = "remove" /\ req[p].pc = "save" /\ req'[p] = Idle

\* C6: removeFromFavorites, from any favorites sequence and for any id, when
\* no other write to the user lands between its read and its save: it answers
\* 200, the stored sequence becomes the old one without any occurrence of the
\* id and with the others in their order, a non-member id leaves the user
\* document as it is, and a second removal of the id would leave the state it
\* reached unchanged.  Under any interleaving a removal that answers 200 either
\* writes nothing or writes the sequence it loaded without the id, and one
\* that fails writes nothing; no other user is touched.
C6_RemoveIdempotent ==
  [][ \A p \in Procs :
        RemoveSaveStep(p) =>
          LET u == req[p].user
              id == req[p].rid
              loaded == req[p].doc
              old == users[u]
              new == users'[u]
          IN /\ resp'.op = "remove" /\ resp'.status \in {200, 500}
             /\ \A w \in Users \ {u} : users'[w] = users[w]
             /\ resp'.status = 500 => new = old
             /\ resp'.status = 200 =>
                  \/ new = old
                  \/ new.favoriteRecipes =
                       SelectSeq(loaded.favoriteRecipes, LAMBDA x : x # id)
             /\ old = loaded =>
                  /\ resp'.status = 200
                  /\ new.favoriteRecipes =
                       SelectSeq(old.favoriteRecipes, LAMBDA x : x # id)
                  /\ (\A i \in 1..Len(old.favoriteRecipes) :
                         old.favoriteRecipes[i] # id) => new = old
                  /\ ~SaveFilteredFails(new, new, id)
                  /\ SaveFiltered(new, new, id) = new
    ]_vars

\* C6's case: u1 held <<2, 1, 0>> or another three references, one removal
\* of id 1 was saved, and the two others are left in their order.
C6_Witness ==
  /\ resp.op = "remove" /\ resp.status = 200 /\ resp.rid = 1
  /\ users[resp.user] = [favoriteRecipes |-> <<2, 0>>, v |-> 4]

\* The number a text of decimal digits writes.
RECURSIVE TextValue(_)
TextValue(text) ==
  IF text = <<>> THEN 0
  ELSE 10 * TextValue(SubSeq(text, 1, Len(text) - 1)) + text[Len(text)]

AskedPage(q) == IF "page" \in DOMAIN q THEN TextValue(q.page) ELSE 1
AskedLimit(q) == IF "limit" \in DOMAIN q THEN TextValue(q.limit) ELSE 12

\* The ids a response lists.
Listed(r) == {r.recipes[k] : k \in 1..Len(r.recipes)}

\* C7: for getRecipes and getUserRecipes, with total the number of documents
\* matching the filter, page >= 1 and limit >= 1: totalRecipes = total,
\* totalPages = ceil(total / limit), hasNextPage = (page < totalPages),
\* hasPrevPage = (page > 1), and the recipes returned are those at positions
\* (page-1)*limit .. page*limit-1 of the sorted matching set, in that order.
C7_Pagination ==
  resp.op \in {"list", "mine"} =>
    LET q == resp.query
        page == AskedPage(q)
        limit == AskedLimit(q)
        M == IF resp.op = "list"
             THEN {i \in DOMAIN recipes : Exists(i) /\ MatchesFilter(recipes[i], q)}
             ELSE {i \in DOMAIN recipes : Exists(i) /\ recipes[i].author = resp.user}
        total == Cardinality(M)
        latestFirst == \/ resp.op = "mine"
                       \/ "sortOrder" \notin DOMAIN q
                       \/ q.sortOrder = "desc"
        Position(i) == Cardinality({j \in M :
                         IF latestFirst
                         THEN recipes[j].createdAt > recipes[i].createdAt
                         ELSE recipes[j].createdAt < recipes[i].createdAt})
        pg == resp.pagination
    IN /\ page >= 1 /\ limit >= 1
       /\ pg.currentPage = page
       /\ pg.totalRecipes = total
       /\ pg.totalPages * limit >= total
       /\ (pg.totalPages - 1) * limit < total
       /\ pg.hasNextPage = (page < pg.totalPages)
       /\ pg.hasPrevPage = (page > 1)
       /\ Listed(resp) =
            {i \in M : Position(i) \in ((page - 1) * limit)..(page * limit - 1)}
       /\ \A k \in 1..Len(resp.recipes) :
            Position(resp.recipes[k]) = (page - 1) * limit + k - 1

\* C7's case: page 2 of three matching recipes, two to a page.
C7_Witness ==
  /\ resp.op = "list"
  /\ "page" \in DOMAIN resp.query /\ resp.query.page = <<2>>
  /\ "limit" \in DOMAIN resp.query /\ resp.query.limit = <<2>>
  /\ resp.pagination.totalRecipes = 3
  /\ resp.pagination.totalPages = 2
  /\ Len(resp.recipes) = 1
  /\ resp.pagination.hasPrevPage /\ ~resp.pagination.hasNextPage

\* C8: getFavoriteRecipes, for a user with F favorites, page >= 1 and
\* limit >= 1: totalRecipes = F, totalPages = ceil(F / limit), hasNextPage =
\* (page < totalPages), hasPrevPage = (page > 1), and the recipes returned are
\* the page-th slice of limit of the favorites, latest created first.
C8_FavoritesPagination ==
  resp.op = "favorites" =>
    LET q == resp.query
        page == AskedPage(q)
        limit == AskedLimit(q)
        favs == users[resp.user].favoriteRecipes
        F == Len(favs)
        M == {i \in {favs[k] : k \in 1..F} : Exists(i)}
        Position(i) == Cardinality({j \in M :
                         recipes[j].createdAt > recipes[i].createdAt})
        pg == resp.pagination
    IN /\ pg.totalRecipes = F
       /\ pg.totalPages * limit >= F
       /\ (pg.totalPages - 1) * limit < F
       /\ pg.hasNextPage = (page < pg.totalPages)
       /\ pg.hasPrevPage = (page > 1)
       /\ Listed(resp) =
            {i \in M : Position(i) \in ((page - 1) * limit)..(page * limit - 1)}

\* C9: getRecipes returns only recipes with isPublic = true, and with maxTime
\* supplied only those with prep + cook <= maxTime; it leaves none of them
\* out: unless a difficulty is asked for as well, their number is the total it
\* reports, and a first page that has room for all of them lists them all.
C9_PublicWithinMaxTime ==
  resp.op = "list" =>
    LET q == resp.query
        Visible == {i \in DOMAIN recipes :
                      /\ recipes[i] # NoDoc
                      /\ recipes[i].isPublic
                      /\ "maxTime" \in DOMAIN q =>
                           recipes[i].cookingTime.prep + recipes[i].cookingTime.cook
                             <= TextValue(q.maxTime)}
    IN /\ Listed(resp) \subseteq Visible
       /\ ("difficulty" \notin DOMAIN q \/ q.difficulty = "All") =>
            /\ resp.pagination.totalRecipes = Cardinality(Visible)
            /\ (AskedPage(q) = 1 /\ AskedLimit(q) >= Cardinality(Visible))
                 => Listed(resp) = Visible

\* C9's case: with maxTime=25 a public recipe of prep 10 and cook 20 is left
\* out and a public one of 25 minutes is listed, a private one being left out.
C9_Witness ==
  /\ resp.op = "list"
  /\ "maxTime" \in DOMAIN resp.query /\ resp.query.maxTime = <<2, 5>>
  /\ \E i \in DOMAIN recipes \ Listed(resp) :
       /\ recipes[i].isPublic
       /\ recipes[i].cookingTime = [prep |-> 10, cook |-> 20]
  /\ \E i \in Listed(resp) :
       recipes[i].cookingTime.prep + recipes[i].cookingTime.cook = 25
  /\ \E i \in DOMAIN recipes \ Listed(resp) : ~recipes[i].isPublic

C12_AuthorFixed ==
  [][ /\ (AcceptStep /\ resp'.op = "create" /\ resp'.status = 201)
          => /\ recipes[resp'.rid] = NoDoc
             /\ recipes'[resp'.rid] # NoDoc
             /\ recipes'[resp'.rid].author = resp'.user
      /\ \A r \in RecipeIds :
           (recipes[r] # NoDoc /\ recipes'[r] # NoDoc)
             => recipes'[r].author = recipes[r].author
      /\ \A r \in RecipeIds :
           (recipes[r] = NoDoc /\ recipes'[r] # NoDoc)
             => (r = nextId /\ nextId' = nextId + 1 /\ resp'.op = "create")
    ]_vars

====
